---- MODULE Spec2Model ----
(***************************************************************************)
(* Clash-detection core of the IFC GraphQL service.                        *)
(*                                                                         *)
(* Geometry is discretised: a solid is a set of unit cells <<x, y, z>> of  *)
(* a grid; the cell <<x, y, z>> occupies [x,x+1] x [y,y+1] x [z,z+1].      *)
(* Z coordinates are metres, one cell is one metre high, and the XY size   *)
(* of a cell is the file's length scale, so that a cell has the same       *)
(* number of area units (1e-7 m2) and of volume units (1e-7 m3).           *)
(* A real number is a record [e, n] standing for e * 1e-7 + n * 1e-13.     *)
(***************************************************************************)
EXTENDS Integers, Sequences, FiniteSets, TLC

\* ------------------------------------------------------------------ bounds
NumEnt == 4

\* ------------------------------------------------------- program constants
\* _EPS = 1e-12, in units of 1e-13
EPS == 10
\* _DP and _CLASH_DP, decimal places
DP == 4
CLASH_DP == 6

\* ------------------------------------------------------------- real numbers
Sub == 1000000

Real(e, n) == [e |-> e + (n \div Sub), n |-> n % Sub]

Zero == [e |-> 0, n |-> 0]

IsNeg(v) == v.e < 0

IsPos(v) == v.e > 0 \/ (v.e = 0 /\ v.n > 0)

Neg(v) == Real(0 - v.e, 0 - v.n)

Abs(v) == IF IsNeg(v) THEN Neg(v) ELSE v

Less(v, w) == v.e < w.e \/ (v.e = w.e /\ v.n < w.n)

\* the value passed on without a clamp
Max0_None(v) == v

\* max(0.0, x)
Max0(v) == IF IsNeg(v) THEN Zero ELSE v

RECURSIVE Pow10(_)
Pow10(k) == IF k = 0 THEN 1 ELSE 10 * Pow10(k - 1)

\* a non-negative x cut after dp decimals
RoundNonNeg_Floor(v, dp) == v.e \div Pow10(7 - dp)

\* round(x, dp) of a non-negative x: the nearest multiple of 10^-dp, ties to
\* the even one; the result counts units of 10^-dp.
RoundNonNeg(v, dp) ==
  LET step == Pow10(7 - dp)
      q    == v.e \div step
      rem  == (v.e % step) * Sub + v.n
      half == (step * Sub) \div 2
  IN  IF rem > half THEN q + 1
      ELSE IF rem < half THEN q
      ELSE IF q % 2 = 0 THEN q ELSE q + 1

PyRound(v, dp) ==
  IF IsNeg(v) THEN 0 - RoundNonNeg(Neg(v), dp) ELSE RoundNonNeg(v, dp)

\* _round(x, dp): clamp |x| < _EPS to 0.0, else round(x, dp)
Round(v, dp) ==
  IF Less(Abs(v), Real(0, EPS)) THEN 0 ELSE PyRound(v, dp)

\* ------------------------------------------------------------------ solids
BarX  == {<<0, 0, 0>>, <<1, 0, 0>>}
BarY  == {<<1, 0, 0>>, <<1, 1, 0>>}
Notch == {<<3, 0, 1>>}
High  == {<<0, 0, 5>>, <<1, 0, 5>>}
Ell   == {<<3, 0, 0>>, <<4, 0, 0>>, <<4, 0, 1>>}

\* ----------------------------------------------------------------- the file
NoGid == "None"
NoEnt == [id |-> 0, gid |-> NoGid, class |-> "None", geom |-> "fail", solid |-> {},
          mesh |-> "none"]

\* the entities a file may hold: STEP id, GlobalId, IFC class, the outcome
\* of shape construction (ok: the default settings succeed; alt: they fail
\* and the settings without opening subtraction succeed; fail: both fail)
\* and the solid obtained; mesh tells what the tessellation holds (solid: the
\* faces of the solid; none: no vertex and no face; flat: vertices and faces
\* whose XY projections are all degenerate)
Catalogue ==
  { [id |-> 1, gid |-> "a",   class |-> "IfcWall",             geom |-> "ok",   solid |-> BarX, mesh |-> "solid"],
    [id |-> 2, gid |-> "b",   class |-> "IfcSlab",             geom |-> "ok",   solid |-> BarY, mesh |-> "solid"],
    [id |-> 3, gid |-> "c",   class |-> "IfcBeam",             geom |-> "alt",  solid |-> Notch, mesh |-> "solid"],
    [id |-> 4, gid |-> "d",   class |-> "IfcColumn",           geom |-> "ok",   solid |-> High, mesh |-> "solid"],
    [id |-> 5, gid |-> "e",   class |-> "IfcFooting",          geom |-> "ok",   solid |-> Ell, mesh |-> "solid"],
    [id |-> 6, gid |-> "f",   class |-> "IfcStair",            geom |-> "fail", solid |-> {}, mesh |-> "solid"],
    [id |-> 7, gid |-> "g",   class |-> "IfcDoor",             geom |-> "ok",   solid |-> BarX, mesh |-> "solid"],
    [id |-> 8, gid |-> NoGid, class |-> "IfcWallStandardCase", geom |-> "ok",   solid |-> BarY, mesh |-> "solid"],
    [id |-> 9, gid |-> "a",   class |-> "IfcStair",            geom |-> "ok",   solid |-> High, mesh |-> "solid"] }

Gids == {k.gid : k \in Catalogue} \ {NoGid}

\* entities whose tessellation gives no footprint
Degenerate ==
  { [id |-> 10, gid |-> "h", class |-> "IfcSlab", geom |-> "ok", solid |-> {},
     mesh |-> "none"],
    [id |-> 11, gid |-> "i", class |-> "IfcWall", geom |-> "ok", solid |-> BarY,
     mesh |-> "flat"] }

RECURSIVE SeqOfIds(_, _)
SeqOfIds(S, asc) ==
  IF S = {} THEN <<>>
  ELSE LET k == CHOOSE x \in S : \A y \in S : IF asc THEN x.id <= y.id ELSE x.id >= y.id
       IN  <<k>> \o SeqOfIds(S \ {k}, asc)

\* the files: at most NumEnt entities, in ascending or descending id order
Files ==
  { SeqOfIds(S, asc) : S \in {T \in SUBSET Catalogue : Cardinality(T) <= NumEnt},
                       asc \in BOOLEAN }

\* the files that hold an entity without footprint
DegenerateFiles ==
  { SeqOfIds(S, asc) :
      S \in {T \in SUBSET (Catalogue \cup Degenerate) :
               Cardinality(T) <= NumEnt /\ T \cap Degenerate # {}},
      asc \in BOOLEAN }

\* the length scales: area (volume) of one cell in units of 1e-7
Scales == {4, 5000}

\* numerical noise of a volume integral, in units of 1e-13
Noise == {0, 1, 4, 0 - 3, 20, 0 - 6000000}

\* z_tolerance values, in tenths of a metre
ZTols == {0, 2, 40, 100}

\* the types a plan scan is asked for
PlanTypes == {"IfcWall", "IfcSlab", "IfcColumn", "IfcBuildingElement"}

\* the [z_min, z_max] windows of the pairwise 2D check, in metres
NoWindow == [has |-> FALSE, lo |-> 0, hi |-> 0]
ZWindows == {NoWindow, [has |-> TRUE, lo |-> 0, hi |-> 1], [has |-> TRUE, lo |-> 8, hi |-> 9]}

\* the storeys a storey-scoped request may name
Storeys == {1, 2}

\* the sets of intersections whose serialization to WKT fails
BadWkt == {{}, {{<<1, 0>>}}}

NoArgs == [a |-> "none", b |-> "none", tol |-> 0, wkt |-> FALSE, win |-> NoWindow,
           storey |-> 0, bad |-> {}]

\* the requests that run side by side, and what each holds before it starts
Procs == {1, 2}
NoReq == [pc |-> "idle", guids |-> <<>>, idx |-> 0, results |-> <<>>, outcome |-> "none"]

\* arith: the noise that the arithmetic of this process leaves on the integral
\* over a touching pair when requests run side by side; reqs: their locals
VARIABLES file, scale, bboxAvail, pc, op, guids, idx, results, outcome,
          evalLog, args, arith, reqs

vars == <<file, scale, bboxAvail, pc, op, guids, idx, results, outcome,
          evalLog, args, arith, reqs>>

\* ------------------------------------------------------------ IFC accessors
\* entity.is_a(t): the class or one of its subtypes
IsA(class, t) ==
  \/ class = t
  \/ class = "IfcWallStandardCase" /\ t = "IfcWall"
  \/ t = "IfcBuildingElement"

ByType(f, t) == SelectSeq(f, LAMBDA e : IsA(e.class, t))

\* an element reference: an int, or a string "#<digits>", "<digits>" or a
\* GlobalId
GuidRef(g) == [kind |-> "guid", val |-> g]
StepRef(k, n) == [kind |-> k, val |-> n]

Refs ==
  {GuidRef(g) : g \in Gids} \cup
  {StepRef("int", 1), StepRef("hash", 2), StepRef("digits", 7)}

\* model.by_id(n): raises when no entity has this id
ById(f, n) ==
  LET hits == SelectSeq(f, LAMBDA e : e.id = n)
  IN  IF Len(hits) > 0 THEN [raised |-> FALSE, el |-> hits[1]]
      ELSE [raised |-> TRUE, el |-> NoEnt]

\* _get_element: by id for an int, "#<digits>" or "<digits>"; else by_guid,
\* then the scan for a matching GlobalId, then None
GetElement(f, ref) ==
  IF ref.kind \in {"int", "hash", "digits"} THEN ById(f, ref.val)
  ELSE LET hits == SelectSeq(f, LAMBDA e : e.gid = ref.val)
       IN  IF Len(hits) > 0 THEN [raised |-> FALSE, el |-> hits[1]]
           ELSE [raised |-> FALSE, el |-> NoEnt]

\* _create_shape_with_fallback: the attempts made, in order, and the result
CreateShapeWithFallback(el) ==
  IF el.geom = "ok"
    THEN [raised |-> FALSE, shape |-> el.solid, attempts |-> <<"default">>]
  ELSE IF el.geom = "alt"
    THEN [raised |-> FALSE, shape |-> el.solid,
          attempts |-> <<"default", "no-openings">>]
  ELSE [raised |-> TRUE, shape |-> {}, attempts |-> <<"default", "no-openings">>]

\* _topods_for_element answering an empty shape for an element not found
TopodsForElement_Silent(f, ref) ==
  LET g == GetElement(f, ref)
  IN  IF g.raised \/ g.el = NoEnt
        THEN [raised |-> FALSE, shape |-> {}, attempts |-> <<>>]
        ELSE CreateShapeWithFallback(g.el)

\* _topods_for_element: raises for an element that is not found
TopodsForElement(f, ref) ==
  LET g == GetElement(f, ref)
  IN  IF g.raised \/ g.el = NoEnt
        THEN [raised |-> TRUE, shape |-> {}, attempts |-> <<>>]
        ELSE CreateShapeWithFallback(g.el)

\* ------------------------------------------------------------ bounding boxes
Lo(s, ax) == CHOOSE m \in {c[ax] : c \in s} : \A c \in s : m <= c[ax]
Hi(s, ax) == (CHOOSE m \in {c[ax] : c \in s} : \A c \in s : m >= c[ax]) + 1

\* IsOut comparing the lower corners of both boxes
IsOut_LowerCorners(s1, s2) ==
  \E ax \in 1..3 : Lo(s1, ax) > Lo(s2, ax) \/ Lo(s2, ax) > Lo(s1, ax)

\* Bnd_Box.IsOut: separated along some axis
IsOut(s1, s2) ==
  \E ax \in 1..3 : Lo(s1, ax) > Hi(s2, ax) \/ Lo(s2, ax) > Hi(s1, ax)

BboxDisjoint(avail, s1, s2) ==
  IF ~avail THEN FALSE
  ELSE IF s1 = {} \/ s2 = {} THEN TRUE
  ELSE IsOut(s1, s2)

\* --------------------------------------------------------------- 3D clashes
\* the closed solids have a point in common
Touching(s1, s2) ==
  \E c \in s1, d \in s2 :
    \A ax \in 1..3 : c[ax] - d[ax] <= 1 /\ d[ax] - c[ax] <= 1

\* exact volume of the common solid, in units of 1e-7
CommonVolume(sc, s1, s2) == sc * Cardinality(s1 \cap s2)

\* the noise the integral over the common solid can carry
NoiseOf(s1, s2) == IF Touching(s1, s2) THEN Noise ELSE {0}

\* props.Mass() of the common solid: the exact volume and the noise
CommonMass(sc, s1, s2, noise) == Real(CommonVolume(sc, s1, s2), noise)

\* lines 280-284 of clash_between: the rounded volume of the common solid
BooleanVolume(sc, s1, s2, noise) ==
  Round(Max0(CommonMass(sc, s1, s2, noise)), CLASH_DP)

\* clash_between without the quick cull
ClashBetween_NoCull(f, sc, avail, a, b, noise) ==
  LET sa == TopodsForElement(f, a)
      sb == TopodsForElement(f, b)
  IN  IF sa.raised \/ sb.raised
        THEN [raised |-> TRUE, vol |-> 0, common |-> FALSE, mass |-> Zero,
              noise |-> noise]
      ELSE [raised |-> FALSE, common |-> TRUE,
            vol |-> BooleanVolume(sc, sa.shape, sb.shape, noise),
            mass |-> CommonMass(sc, sa.shape, sb.shape, noise), noise |-> noise]

\* clash_between that takes a second element without shape for an empty one
ClashBetween_SecondUnchecked(f, sc, avail, a, b, noise) ==
  LET sa == TopodsForElement(f, a)
      sb == TopodsForElement(f, b)
  IN  IF sa.raised
        THEN [raised |-> TRUE, vol |-> 0, common |-> FALSE, mass |-> Zero,
              noise |-> noise]
      ELSE IF sb.raised \/ BboxDisjoint(avail, sa.shape, sb.shape)
        THEN [raised |-> FALSE, vol |-> 0, common |-> FALSE, mass |-> Zero,
              noise |-> noise]
      ELSE [raised |-> FALSE, common |-> TRUE,
            vol |-> BooleanVolume(sc, sa.shape, sb.shape, noise),
            mass |-> CommonMass(sc, sa.shape, sb.shape, noise), noise |-> noise]

\* clash_between: the result, in units of 10^-CLASH_DP, what was invoked, the
\* integral over the common solid and the noise it carried
ClashBetween(f, sc, avail, a, b, noise) ==
  LET sa == TopodsForElement(f, a)
      sb == TopodsForElement(f, b)
  IN  IF sa.raised \/ sb.raised
        THEN [raised |-> TRUE, vol |-> 0, common |-> FALSE, mass |-> Zero,
              noise |-> noise]
      ELSE IF BboxDisjoint(avail, sa.shape, sb.shape)
        THEN [raised |-> FALSE, vol |-> 0, common |-> FALSE, mass |-> Zero,
              noise |-> noise]
      ELSE [raised |-> FALSE, common |-> TRUE,
            vol |-> BooleanVolume(sc, sa.shape, sb.shape, noise),
            mass |-> CommonMass(sc, sa.shape, sb.shape, noise), noise |-> noise]

\* the volume of the bounding box of the element, in units of 10^-DP
ComputeElementVolume_OfBox(f, sc, ref, noise) ==
  LET sh == TopodsForElement(f, ref)
      s  == sh.shape
  IN  IF sh.raised THEN [raised |-> TRUE, vol |-> 0]
      ELSE IF s = {} THEN [raised |-> FALSE, vol |-> 0]
      ELSE [raised |-> FALSE,
            vol |-> Round(Real(sc * (Hi(s, 1) - Lo(s, 1)) * (Hi(s, 2) - Lo(s, 2))
                                  * (Hi(s, 3) - Lo(s, 3)), noise), DP)]

\* compute_element_volume: the result, in units of 10^-DP
ComputeElementVolume(f, sc, ref, noise) ==
  LET sh == TopodsForElement(f, ref)
  IN  IF sh.raised THEN [raised |-> TRUE, vol |-> 0]
      ELSE [raised |-> FALSE,
            vol |-> Round(Real(sc * Cardinality(sh.shape), noise), DP)]

\* ------------------------------------------------------------- the 3D sweep
Types == <<"IfcWall", "IfcSlab", "IfcBeam", "IfcColumn", "IfcFooting", "IfcStair">>

RECURSIVE Listed(_, _)
Listed(f, i) ==
  IF i > Len(Types) THEN <<>> ELSE ByType(f, Types[i]) \o Listed(f, i + 1)

\* the candidate loop without the check of the seen set
RECURSIVE Dedup_NoSeen(_, _)
Dedup_NoSeen(es, acc) ==
  IF es = <<>> THEN acc
  ELSE LET gid == Head(es).gid
       IN  IF gid # NoGid
             THEN Dedup_NoSeen(Tail(es), Append(acc, gid))
             ELSE Dedup_NoSeen(Tail(es), acc)

RECURSIVE Dedup(_, _)
Dedup(es, acc) ==
  IF es = <<>> THEN acc
  ELSE LET gid == Head(es).gid
       IN  IF gid # NoGid /\ ~(\E k \in 1..Len(acc) : acc[k] = gid)
             THEN Dedup(Tail(es), Append(acc, gid))
             ELSE Dedup(Tail(es), acc)

Candidates(f) == Dedup(Listed(f, 1), <<>>)

\* itertools.combinations(s, 2)
RECURSIVE Combinations(_, _, _)
Combinations(s, i, j) ==
  IF i >= Len(s) THEN <<>>
  ELSE IF j > Len(s) THEN Combinations(s, i + 1, i + 2)
  ELSE <<<<s[i], s[j]>>>> \o Combinations(s, i, j + 1)

Pairs(s) == Combinations(s, 1, 2)

\* the value of context["role"]; "None": the context has no role
Roles == {"engineer", "architect", "Engineer", "client", "None"}

\* (role or "anonymous").lower()
Lower(role) ==
  IF role = "None" THEN "anonymous"
  ELSE IF role = "Engineer" THEN "engineer"
  ELSE role

\* the role test without the lower-casing
RequireRole_CaseSensitive(role) == role \in {"engineer", "architect"}

\* require_role(info, {"engineer", "architect"})
RequireRole(role) == Lower(role) \in {"engineer", "architect"}

Init ==
  /\ file \in Files
  /\ scale \in Scales
  /\ bboxAvail \in BOOLEAN
  /\ pc = "idle"
  /\ op = "none"
  /\ guids = <<>>
  /\ idx = 0
  /\ results = <<>>
  /\ outcome = "none"
  /\ evalLog = <<>>
  /\ args = NoArgs
  /\ arith = 0
  /\ reqs = [p \in Procs |-> NoReq]

\* what the model records of one call of clash_between
LogEntry(a, b, r) ==
  [a |-> a, b |-> b, raised |-> r.raised, vol |-> r.vol, common |-> r.common,
   mass |-> r.mass, noise |-> r.noise]

ClashRow(a, b, vol) == [element1 |-> a, element2 |-> b, intersectionVolume |-> vol]

\* the row emitted for every evaluated pair
EmitRow_Always(rows, a, b, vol) == Append(rows, ClashRow(a, b, vol))

\* if vol > 0: results.append(...)
EmitRow(rows, a, b, vol) ==
  IF vol > 0 THEN Append(rows, ClashRow(a, b, vol)) ELSE rows

\* resolve_detect_clashes up to the start of the pair loop
DetectClashesStart ==
  /\ pc = "idle"
  /\ \E role \in Roles, isfile \in BOOLEAN :
       /\ op' = "detectClashes"
       /\ evalLog' = <<>>
       /\ results' = <<>>
       /\ IF ~RequireRole(role)
            THEN /\ pc' = "done" /\ outcome' = "forbidden"
                 /\ guids' = <<>> /\ idx' = 0
          ELSE IF ~isfile
            THEN /\ pc' = "done" /\ outcome' = "file-not-found"
                 /\ guids' = <<>> /\ idx' = 0
          ELSE /\ pc' = "sweep" /\ outcome' = "none"
               /\ guids' = Candidates(file) /\ idx' = 1
       /\ args' = [role |-> role]
  /\ UNCHANGED <<file, scale, bboxAvail, arith, reqs>>

\* one iteration of the loop over combinations(guids, 2)
SweepStep ==
  /\ pc = "sweep"
  /\ idx <= Len(Pairs(guids))
  /\ LET a == Pairs(guids)[idx][1]
         b == Pairs(guids)[idx][2]
     IN  \E noise \in NoiseOf(TopodsForElement(file, GuidRef(a)).shape,
                             TopodsForElement(file, GuidRef(b)).shape) :
           LET r == ClashBetween(file, scale, bboxAvail, GuidRef(a), GuidRef(b), noise)
           IN  /\ evalLog' = Append(evalLog, LogEntry(GuidRef(a), GuidRef(b), r))
               /\ IF r.raised
                    THEN /\ pc' = "done" /\ outcome' = "error"
                         /\ results' = <<>> /\ idx' = idx
                    ELSE /\ pc' = "sweep" /\ outcome' = outcome
                         /\ idx' = idx + 1
                         /\ results' = EmitRow(results, a, b, r.vol)
  /\ UNCHANGED <<file, scale, bboxAvail, arith, reqs, op, guids, args>>

\* return results
SweepReturn ==
  /\ pc = "sweep"
  /\ idx > Len(Pairs(guids))
  /\ pc' = "done"
  /\ outcome' = "ok"
  /\ UNCHANGED <<file, scale, bboxAvail, arith, reqs, op, guids, idx, results, evalLog, args>>

\* resolve_pairwise_clash
PairwiseClash ==
  /\ pc = "idle"
  /\ \E role \in Roles, isfile \in BOOLEAN, a \in Refs, b \in Refs :
       /\ op' = "pairwiseClash"
       /\ pc' = "done"
       /\ guids' = <<>>
       /\ idx' = 0
       /\ IF ~RequireRole(role)
            THEN /\ outcome' = "forbidden" /\ results' = <<>> /\ evalLog' = <<>>
          ELSE IF ~isfile
            THEN /\ outcome' = "file-not-found" /\ results' = <<>> /\ evalLog' = <<>>
          ELSE \E noise \in NoiseOf(TopodsForElement(file, a).shape,
                                    TopodsForElement(file, b).shape) :
                 LET r == ClashBetween(file, scale, bboxAvail, a, b, noise)
                 IN  /\ evalLog' = <<LogEntry(a, b, r)>>
                     /\ outcome' = IF r.raised THEN "error" ELSE "ok"
                     /\ results' = IF r.raised THEN <<>>
                                   ELSE <<ClashRow(a.val, b.val, r.vol)>>
  /\ UNCHANGED <<file, scale, bboxAvail, arith, reqs, args>>

\* resolve_element_volume
\* ---------------------------------------------------------- HTTP requests
\* the key AuthMiddleware verifies with, and the keys tokens are signed with
SECRET_KEY == "your-secret-key"
TokenKeys == {"your-secret-key", "dev-secret"}

\* a JWT: the key it was signed with, its role claim, whether it has expired
Tokens == [key : TokenKeys, role : Roles, expired : BOOLEAN]

\* the Authorization header
NoHeader == [scheme |-> "none", token |-> [key |-> "none", role |-> "None", expired |-> FALSE]]
Headers == {NoHeader} \cup [scheme : {"Bearer ", "Token "}, token : Tokens]

\* user = {}
NoUser == [role |-> "None"]

\* a call that no HTTP request carries
NoRequest == [header |-> NoHeader, user |-> NoUser]

\* jwt.decode(token, key, algorithms=["HS256"])
JwtDecode(token, key) ==
  IF token.key # key THEN [raised |-> TRUE, payload |-> NoUser]
  ELSE IF token.expired THEN [raised |-> TRUE, payload |-> NoUser]
  ELSE [raised |-> FALSE, payload |-> [role |-> token.role]]

\* the context of a resolver under GraphQL(schema, debug=True): the request
ContextValue(request) == [request |-> request]

\* context.get(key)
ContextGet(context, key) ==
  IF key \in DOMAIN context THEN context[key] ELSE "None"

\* resolve_element_volume with the role its context holds
ElementVolumeAs(role, request) ==
  /\ \E isfile \in BOOLEAN, ref \in Refs :
       /\ op' = "elementVolume"
       /\ pc' = "done"
       /\ IF ~RequireRole(role)
            THEN /\ outcome' = "forbidden" /\ results' = <<>>
          ELSE IF ~isfile
            THEN /\ outcome' = "error" /\ results' = <<>>
          ELSE LET s == TopodsForElement(file, ref).shape
               IN  \E noise \in NoiseOf(s, s) :
                     LET r == ComputeElementVolume(file, scale, ref, noise)
                     IN  /\ outcome' = IF r.raised THEN "error" ELSE "ok"
                         /\ results' = IF r.raised THEN <<>> ELSE <<r.vol>>
       /\ args' = [role |-> role, request |-> request]
  /\ UNCHANGED <<file, scale, bboxAvail, arith, reqs, guids, idx, evalLog>>

\* resolve_element_volume called with a context that holds a role
ElementVolume ==
  /\ pc = "idle"
  /\ \E role \in Roles : ElementVolumeAs(role, NoRequest)

\* AuthMiddleware.dispatch: the payload of a Bearer token becomes
\* request.scope["user"]; a token that does not decode ends the request
Dispatch ==
  /\ pc = "idle"
  /\ \E header \in Headers :
       LET d == JwtDecode(header.token, SECRET_KEY)
       IN  /\ op' = "request"
           /\ IF header.scheme = "Bearer " /\ d.raised
                THEN /\ pc' = "done" /\ outcome' = "rejected"
                     /\ args' = [role |-> "None",
                                 request |-> [header |-> header, user |-> NoUser]]
                ELSE /\ pc' = "resolver" /\ outcome' = "none"
                     /\ args' = [role |-> "None",
                                 request |-> [header |-> header,
                                              user |-> IF header.scheme = "Bearer "
                                                         THEN d.payload ELSE NoUser]]
  /\ UNCHANGED <<file, scale, bboxAvail, arith, reqs, guids, idx, results, evalLog>>

\* the elementVolume field of a request that passed the middleware
GraphQLElementVolume ==
  /\ pc = "resolver"
  /\ ElementVolumeAs(ContextGet(ContextValue(args.request), "role"), args.request)

\* the request is over; its locals are gone
Finish ==
  /\ pc = "done"
  /\ pc' = "idle"
  /\ op' = "none"
  /\ guids' = <<>>
  /\ idx' = 0
  /\ results' = <<>>
  /\ outcome' = "none"
  /\ evalLog' = <<>>
  /\ args' = NoArgs
  /\ UNCHANGED <<file, scale, bboxAvail, arith, reqs>>

Next ==
  \/ DetectClashesStart
  \/ SweepStep
  \/ SweepReturn
  \/ PairwiseClash
  \/ ElementVolume
  \/ Finish

Spec == Init /\ [][Next]_vars

\* ===================================================================
\* 2D plan clashes
\* ===================================================================
\* _mesh_world: create_shape with the default settings only; cells carry the
\* vertices, tris the faces with a valid XY projection
MeshWorld(el) ==
  IF el.geom # "ok" THEN [raised |-> TRUE, cells |-> {}, tris |-> {}]
  ELSE IF el.mesh = "none" THEN [raised |-> FALSE, cells |-> {}, tris |-> {}]
  ELSE IF el.mesh = "flat" THEN [raised |-> FALSE, cells |-> el.solid, tris |-> {}]
  ELSE [raised |-> FALSE, cells |-> el.solid, tris |-> el.solid]

\* _z_range, in tenths of a metre
ZRange(cells) ==
  IF cells = {} THEN [zmin |-> 0, zmax |-> 0]
  ELSE [zmin |-> 10 * Lo(cells, 3), zmax |-> 10 * Hi(cells, 3)]

\* _footprint_polygon: the union of the XY projections of the faces
FootprintPolygon(cells) == {<<c[1], c[2]>> : c \in cells}

\* area of a set of XY cells
Area(sc, region) == Real(sc * Cardinality(region), 0)

\* _prep
Prep(el) ==
  IF el.gid = NoGid THEN [raised |-> FALSE, none |-> TRUE, d |-> NoEnt]
  ELSE LET m == MeshWorld(el)
       IN  IF m.raised THEN [raised |-> TRUE, none |-> TRUE, d |-> NoEnt]
           ELSE IF m.cells = {} THEN [raised |-> FALSE, none |-> TRUE, d |-> NoEnt]
           ELSE [raised |-> FALSE, none |-> FALSE,
                 d |-> [id |-> el.gid, zmin |-> ZRange(m.cells).zmin,
                        zmax |-> ZRange(m.cells).zmax,
                        fp |-> FootprintPolygon(m.tris)]]

\* a dictionary that keeps the first value of a key
DictPut_FirstWins(data, d) ==
  IF \E k \in 1..Len(data) : data[k].id = d.id THEN data ELSE Append(data, d)

\* data[d["id"]] = d: a new key goes last, a known key keeps its place
DictPut(data, d) ==
  IF \E k \in 1..Len(data) : data[k].id = d.id
    THEN [k \in 1..Len(data) |-> IF data[k].id = d.id THEN d ELSE data[k]]
    ELSE Append(data, d)

\* the precompute loop over the elements of one type
RECURSIVE PlanData(_, _)
PlanData(es, data) ==
  IF es = <<>> THEN [raised |-> FALSE, data |-> data]
  ELSE LET r == Prep(Head(es))
       IN  IF r.raised THEN [raised |-> TRUE, data |-> <<>>]
           ELSE IF ~r.none /\ r.d.fp # {}
             THEN PlanData(Tail(es), DictPut(data, r.d))
             ELSE PlanData(Tail(es), data)

\* the Z cull with the tolerance applied to the lower ends
ZCulled_LowerEnds(A, B, tol) ==
  (A.zmax < B.zmin + tol) \/ (B.zmax < A.zmin + tol)

\* the Z cull without the tolerance
ZCulled_NoTolerance(A, B, tol) ==
  (A.zmax < B.zmin) \/ (B.zmax < A.zmin)

\* the Z cull that tests one side only
ZCulled_OneSided(A, B, tol) == (A.zmax + tol) < B.zmin

\* the Z cull of line 114
ZCulled(A, B, tol) ==
  (A.zmax + tol) < B.zmin \/ (B.zmax + tol) < A.zmin

NoWkt == [key |-> FALSE, null |-> FALSE, text |-> {}]

\* item["wkt"] = inter.wkt, or None when the serialization raises
WktOf(inter, bad) ==
  IF inter \in bad THEN [key |-> TRUE, null |-> TRUE, text |-> {}]
  ELSE [key |-> TRUE, null |-> FALSE, text |-> inter]

\* the body of the inner loop that drops a row it cannot serialize
PairRows_DropUnserialised(sc, A, B, tol, wkt, bad) ==
  IF ZCulled(A, B, tol) THEN <<>>
  ELSE LET inter == A.fp \cap B.fp
       IN  IF inter # {} /\ IsPos(Area(sc, inter)) /\ ~(wkt /\ inter \in bad)
             THEN << [aId |-> A.id, bId |-> B.id,
                      area |-> PyRound(Area(sc, inter), 6),
                      wkt |-> IF wkt THEN WktOf(inter, bad) ELSE NoWkt] >>
             ELSE <<>>

\* the body of the inner loop: the rows one pair adds
\* the pair test leaving out an element paired with itself
PairRows_SkipSelf(sc, A, B, tol, wkt, bad) ==
  IF A.id = B.id \/ ZCulled(A, B, tol) THEN <<>>
  ELSE LET inter == A.fp \cap B.fp
       IN  IF inter # {} /\ IsPos(Area(sc, inter))
             THEN << [aId |-> A.id, bId |-> B.id,
                      area |-> PyRound(Area(sc, inter), 6),
                      wkt |-> IF wkt THEN WktOf(inter, bad) ELSE NoWkt] >>
             ELSE <<>>

PairRows(sc, A, B, tol, wkt, bad) ==
  IF ZCulled(A, B, tol) THEN <<>>
  ELSE LET inter == A.fp \cap B.fp
       IN  IF inter # {} /\ IsPos(Area(sc, inter))
             THEN << [aId |-> A.id, bId |-> B.id,
                      area |-> PyRound(Area(sc, inter), 6),
                      wkt |-> IF wkt THEN WktOf(inter, bad) ELSE NoWkt] >>
             ELSE <<>>

RECURSIVE InnerLoop(_, _, _, _, _, _, _)
InnerLoop(sc, A, bs, k, tol, wkt, bad) ==
  IF k > Len(bs) THEN <<>>
  ELSE PairRows(sc, A, bs[k], tol, wkt, bad) \o InnerLoop(sc, A, bs, k + 1, tol, wkt, bad)

\* the outer loop that takes the elements of A from the last to the first
RECURSIVE OuterLoop_Backwards(_, _, _, _, _, _, _)
OuterLoop_Backwards(sc, as, bs, k, tol, wkt, bad) ==
  IF k > Len(as) THEN <<>>
  ELSE OuterLoop_Backwards(sc, as, bs, k + 1, tol, wkt, bad)
         \o InnerLoop(sc, as[k], bs, 1, tol, wkt, bad)

RECURSIVE OuterLoop(_, _, _, _, _, _, _)
OuterLoop(sc, as, bs, k, tol, wkt, bad) ==
  IF k > Len(as) THEN <<>>
  ELSE InnerLoop(sc, as[k], bs, 1, tol, wkt, bad)
         \o OuterLoop(sc, as, bs, k + 1, tol, wkt, bad)

\* detect_plan_clashes
DetectPlanClashesOf(f, sc, aType, bType, tol, wkt, bad) ==
  LET da == PlanData(ByType(f, aType), <<>>)
      db == IF da.raised THEN da ELSE PlanData(ByType(f, bType), <<>>)
  IN  IF da.raised \/ db.raised THEN [raised |-> TRUE, rows |-> <<>>]
      ELSE IF da.data = <<>> \/ db.data = <<>> THEN [raised |-> FALSE, rows |-> <<>>]
      ELSE [raised |-> FALSE, rows |-> OuterLoop(sc, da.data, db.data, 1, tol, wkt, bad)]

\* resolve_detect_plan_clashes
DetectPlanClashes ==
  /\ pc = "idle"
  /\ \E isfile \in BOOLEAN, aType \in PlanTypes, bType \in PlanTypes,
        tol \in ZTols, wkt \in BOOLEAN, bad \in BadWkt :
       /\ wkt \/ bad = {}
       /\ op' = "detectPlanClashes"
       /\ pc' = "done"
       /\ IF ~isfile
            THEN /\ outcome' = "file-not-found" /\ results' = <<>> /\ args' = NoArgs
            ELSE LET r == DetectPlanClashesOf(file, scale, aType, bType, tol, wkt, bad)
                 IN  /\ outcome' = IF r.raised THEN "error" ELSE "ok"
                     /\ results' = r.rows
                     /\ args' = [a |-> aType, b |-> bType, tol |-> tol, wkt |-> wkt,
                                 win |-> NoWindow, storey |-> 0, bad |-> bad]
  /\ UNCHANGED <<file, scale, bboxAvail, arith, reqs, guids, idx, evalLog>>

\* area_tol = 1e-6, in units of 1e-7
AREA_TOL == 10

\* the cells with a vertex whose z is inside the window
InWindow(cells, win) ==
  IF ~win.has THEN cells
  ELSE {c \in cells : \E z \in {c[3], c[3] + 1} : win.lo <= z /\ z <= win.hi}

\* MultiPoint(pts_xy).convex_hull of the corners of cells that form a grid:
\* the XY cells of the bounding rectangle
ConvexHull(cells) ==
  {<<x, y>> \in (Lo(cells, 1)..(Hi(cells, 1) - 1)) \X (Lo(cells, 2)..(Hi(cells, 2) - 1)) : TRUE}

\* _footprint_polygon_for_element
FootprintPolygonForElement(f, ref, win) ==
  LET g == GetElement(f, ref)
  IN  IF g.raised THEN [raised |-> TRUE, none |-> TRUE, hull |-> {}]
      ELSE IF g.el = NoEnt THEN [raised |-> FALSE, none |-> TRUE, hull |-> {}]
      ELSE LET sh == CreateShapeWithFallback(g.el)
           IN  IF sh.raised THEN [raised |-> TRUE, none |-> TRUE, hull |-> {}]
               ELSE IF InWindow(sh.shape, win) = {}
                 THEN [raised |-> FALSE, none |-> TRUE, hull |-> {}]
               ELSE [raised |-> FALSE, none |-> FALSE,
                     hull |-> ConvexHull(InWindow(sh.shape, win))]

\* overlaps_2d_on_storey of the geometry service
Overlaps2dOnStorey(f, sc, a, b, win) ==
  LET pa == FootprintPolygonForElement(f, a, win)
      pb == IF pa.raised THEN pa ELSE FootprintPolygonForElement(f, b, win)
  IN  IF pa.raised \/ pb.raised THEN [raised |-> TRUE, value |-> FALSE]
      ELSE IF pa.none \/ pb.none THEN [raised |-> FALSE, value |-> FALSE]
      ELSE [raised |-> FALSE,
            value |-> Less(Real(AREA_TOL, 0), Area(sc, pa.hull \cap pb.hull))]

\* a call of overlaps_2d_on_storey
Overlaps2D ==
  /\ pc = "idle"
  /\ \E a \in Refs, b \in Refs, win \in ZWindows :
       LET r == Overlaps2dOnStorey(file, scale, a, b, win)
       IN  /\ op' = "overlaps2d"
           /\ pc' = "done"
           /\ outcome' = IF r.raised THEN "error" ELSE "ok"
           /\ results' = IF r.raised THEN <<>> ELSE <<r.value>>
           /\ args' = [a |-> a, b |-> b, tol |-> 0, wkt |-> FALSE, win |-> win,
                       storey |-> 0, bad |-> {}]
  /\ UNCHANGED <<file, scale, bboxAvail, arith, reqs, guids, idx, evalLog>>

InitPlan == Init /\ bboxAvail

NextPlan ==
  \/ DetectPlanClashes
  \/ Overlaps2D
  \/ Finish

SpecPlan == InitPlan /\ [][NextPlan]_vars

\* ===================================================================
\* Sweeps that run side by side
\* ===================================================================
\* the list a request appends its rows to, shared by all requests
Own_Shared(rs, p) == rs[1].results

\* results: the list a request appends its rows to is its own local
Own(rs, p) == rs[p].results

\* the integral over the common solid is a function of the two solids
NoiseIn(s1, s2) == IF Touching(s1, s2) THEN arith ELSE 0

\* resolve_detect_clashes up to the loop over the pairs
RequestStart(p) ==
  /\ reqs[p].pc = "idle"
  /\ \E role \in Roles, isfile \in BOOLEAN :
       reqs' = [reqs EXCEPT ![p] =
                 IF ~RequireRole(role)
                   THEN [NoReq EXCEPT !.pc = "done", !.outcome = "forbidden"]
                 ELSE IF ~isfile
                   THEN [NoReq EXCEPT !.pc = "done", !.outcome = "file-not-found"]
                 ELSE [NoReq EXCEPT !.pc = "sweep", !.guids = Candidates(file),
                                    !.idx = 1]]
  /\ UNCHANGED <<file, scale, bboxAvail, pc, op, guids, idx, results, outcome,
                 evalLog, args, arith>>

\* one iteration of the loop of one request
RequestStep(p) ==
  /\ reqs[p].pc = "sweep"
  /\ reqs[p].idx <= Len(Pairs(reqs[p].guids))
  /\ LET a == Pairs(reqs[p].guids)[reqs[p].idx][1]
         b == Pairs(reqs[p].guids)[reqs[p].idx][2]
         n == NoiseIn(TopodsForElement(file, GuidRef(a)).shape,
                      TopodsForElement(file, GuidRef(b)).shape)
         r == ClashBetween(file, scale, bboxAvail, GuidRef(a), GuidRef(b), n)
     IN  reqs' = [reqs EXCEPT ![p] =
                   IF r.raised
                     THEN [@ EXCEPT !.pc = "done", !.outcome = "error", !.results = <<>>]
                     ELSE [@ EXCEPT !.idx = @ + 1,
                                    !.results = EmitRow(Own(reqs, p), a, b, r.vol)]]
  /\ UNCHANGED <<file, scale, bboxAvail, pc, op, guids, idx, results, outcome,
                 evalLog, args, arith>>

\* return results
RequestReturn(p) ==
  /\ reqs[p].pc = "sweep"
  /\ reqs[p].idx > Len(Pairs(reqs[p].guids))
  /\ reqs' = [reqs EXCEPT ![p] = [@ EXCEPT !.pc = "done", !.outcome = "ok"]]
  /\ UNCHANGED <<file, scale, bboxAvail, pc, op, guids, idx, results, outcome,
                 evalLog, args, arith>>

\* the answer is sent; the locals of the request are gone
RequestFinish(p) ==
  /\ reqs[p].pc = "done"
  /\ reqs' = [reqs EXCEPT ![p] = NoReq]
  /\ UNCHANGED <<file, scale, bboxAvail, pc, op, guids, idx, results, outcome,
                 evalLog, args, arith>>

InitTwo ==
  /\ file \in Files
  /\ scale \in Scales
  /\ bboxAvail = TRUE
  /\ arith \in Noise
  /\ reqs = [p \in Procs |-> NoReq]
  /\ pc = "idle"
  /\ op = "none"
  /\ guids = <<>>
  /\ idx = 0
  /\ results = <<>>
  /\ outcome = "none"
  /\ evalLog = <<>>
  /\ args = NoArgs

NextTwo ==
  \/ \E p \in Procs : RequestStart(p)
  \/ \E p \in Procs : RequestStep(p)
  \/ \E p \in Procs : RequestReturn(p)
  \/ \E p \in Procs : RequestFinish(p)

SpecTwo == InitTwo /\ [][NextTwo]_vars

\* ===================================================================
\* The plan scan over files with degenerate geometry, and the
\* storey-scoped request
\* ===================================================================
\* the names the module wkt_clash_service defines or imports
WktClashServiceNames ==
  {"ifcopenshell", "Polygon", "unary_union", "_open_ifc", "_get_element",
   "_settings_mesh_world", "_mesh_world", "_z_range", "_project_triangle_xy",
   "_footprint_polygon", "detect_plan_clashes"}

\* getattr(svc, n, None) or ... over the spellings: is one of them defined
LookUp(names) == \E n \in names : n \in WktClashServiceNames

\* resolve_overlaps_2d_on_storey
StoreyOverlaps ==
  /\ pc = "idle"
  /\ \E isfile \in BOOLEAN, storey \in Storeys, aType \in PlanTypes, bType \in PlanTypes :
       /\ op' = "overlaps2DOnStorey"
       /\ pc' = "done"
       /\ results' = <<>>
       /\ IF ~isfile
            THEN /\ outcome' = "file-not-found" /\ args' = NoArgs
            ELSE /\ args' = [a |-> aType, b |-> bType, tol |-> 2, wkt |-> FALSE,
                             win |-> NoWindow, storey |-> storey, bad |-> {}]
                 /\ IF ~LookUp({"overlaps_2d_on_storey", "overlaps2d_on_storey",
                                "overlaps2DOnStorey"})
                      THEN outcome' = "misconfig"
                      ELSE outcome' = "called"
  /\ UNCHANGED <<file, scale, bboxAvail, arith, reqs, guids, idx, evalLog>>

InitScan ==
  /\ file \in DegenerateFiles
  /\ scale \in Scales
  /\ bboxAvail = TRUE
  /\ pc = "idle"
  /\ op = "none"
  /\ guids = <<>>
  /\ idx = 0
  /\ results = <<>>
  /\ outcome = "none"
  /\ evalLog = <<>>
  /\ args = NoArgs
  /\ arith = 0
  /\ reqs = [p \in Procs |-> NoReq]

NextScan ==
  \/ DetectPlanClashes
  \/ StoreyOverlaps
  \/ Finish

SpecScan == InitScan /\ [][NextScan]_vars

\* ===================================================================
\* Requests over HTTP
\* ===================================================================
\* the files of the HTTP specification: one element at most
InitHttp == Init /\ bboxAvail /\ scale = 5000 /\ Len(file) <= 1

NextHttp ==
  \/ Dispatch
  \/ GraphQLElementVolume
  \/ Finish

SpecHttp == InitHttp /\ [][NextHttp]_vars

\* ===================================================================
\* Lifecycle: material usage and embodied carbon
\* ===================================================================
\* densities in kg/m3, carbon factors in hundredths of kgCO2e per kg
DENSITY_BY_IFC ==
  [IfcSlab |-> 2300, IfcWall |-> 2000, IfcBeam |-> 7850, IfcColumn |-> 7850,
   default |-> 2400]
EC_FACTOR_BY_IFC ==
  [IfcSlab |-> 12, IfcWall |-> 12, IfcBeam |-> 190, IfcColumn |-> 190,
   default |-> 10]

\* table.get(etype, table["default"])
TableGet(table, etype) ==
  IF etype \in DOMAIN table THEN table[etype] ELSE table["default"]

\* an optional argument: None, or a value
NoneArg == [given |-> FALSE, val |-> 0]
Given(v) == [given |-> TRUE, val |-> v]
Densities == {NoneArg, Given(1000), Given(7851), Given(0 - 1000)}
Factors == {NoneArg, Given(25)}

\* _ifc_type: the class of the element, "default" when it is not found
IfcType(f, ref) ==
  LET g == GetElement(f, ref)
  IN  IF g.raised \/ g.el = NoEnt THEN "default" ELSE g.el.class

\* the choice that leaves the argument aside
OrTable_IgnoresArgument(arg, table, etype) == TableGet(table, etype)

\* float(arg) if arg is not None else float(table.get(etype, table["default"]))
OrTable(arg, table, etype) ==
  IF arg.given THEN arg.val ELSE TableGet(table, etype)

\* round(x, 3) of x >= 0 given as x * d thousandths: the nearest thousandth;
\* on a decimal tie the binary value of x decides, either neighbour
Round3(x, d) ==
  LET q == x \div d
      r == x % d
  IN  IF 2 * r < d THEN {q} ELSE IF 2 * r > d THEN {q + 1} ELSE {q, q + 1}

\* calculate_element_material_usage: the volume in 1e-4 m3 and the values the
\* mass can take, in thousandths of a kg
CalculateElementMaterialUsage(f, sc, ref, density, noise) ==
  LET v   == ComputeElementVolume(f, sc, ref, noise)
      rho == OrTable(density, DENSITY_BY_IFC, IfcType(f, ref))
      m   == v.vol * rho
  IN  IF v.raised THEN [raised |-> TRUE, vol |-> 0, values |-> {}]
      ELSE [raised |-> FALSE, vol |-> v.vol,
            values |-> Round3(IF m < 0 THEN 0 ELSE m, 10)]

\* calculate_element_embodied_carbon: the values in thousandths of a kgCO2e,
\* each with the mass it was computed from
CalculateElementEmbodiedCarbon(f, sc, ref, factor, density, noise) ==
  LET fac  == OrTable(factor, EC_FACTOR_BY_IFC, IfcType(f, ref))
      mass == CalculateElementMaterialUsage(f, sc, ref, density, noise)
  IN  IF mass.raised THEN [raised |-> TRUE, vol |-> 0, values |-> {}]
      ELSE [raised |-> FALSE, vol |-> mass.vol,
            values |-> UNION { {[mass |-> m, carbon |-> c] :
                                  c \in Round3(IF m * fac < 0 THEN 0 ELSE m * fac, 100)} :
                               m \in mass.values }]

\* what the model records of one lifecycle call
LifeArgs(role, ref, density, factor) ==
  [role |-> role, ref |-> ref, density |-> density, factor |-> factor]

\* the body of the two material-usage operations
MaterialUsageOf(role, ref, density) ==
  LET s == TopodsForElement(file, ref).shape
  IN  \E noise \in NoiseOf(s, s) :
        LET r == CalculateElementMaterialUsage(file, scale, ref, density, noise)
        IN  /\ args' = LifeArgs(role, ref, density, NoneArg)
            /\ IF r.raised
                 THEN /\ outcome' = "error" /\ results' = <<>> /\ evalLog' = <<>>
                 ELSE \E m \in r.values :
                        /\ outcome' = "ok"
                        /\ results' = <<m>>
                        /\ evalLog' = <<[vol |-> r.vol, mass |-> m]>>

\* the body of the two embodied-carbon operations
EmbodiedCarbonOf(role, ref, factor, density) ==
  LET s == TopodsForElement(file, ref).shape
  IN  \E noise \in NoiseOf(s, s) :
        LET r == CalculateElementEmbodiedCarbon(file, scale, ref, factor, density, noise)
        IN  /\ args' = LifeArgs(role, ref, density, factor)
            /\ IF r.raised
                 THEN /\ outcome' = "error" /\ results' = <<>> /\ evalLog' = <<>>
                 ELSE \E c \in r.values :
                        /\ outcome' = "ok"
                        /\ results' = <<c.carbon>>
                        /\ evalLog' = <<[vol |-> r.vol, mass |-> c.mass]>>

\* resolve_element_material_usage
ElementMaterialUsage ==
  /\ pc = "idle"
  /\ \E role \in Roles, isfile \in BOOLEAN, ref \in Refs :
       /\ op' = "elementMaterialUsage"
       /\ pc' = "done"
       /\ IF ~RequireRole(role)
            THEN /\ outcome' = "forbidden" /\ results' = <<>> /\ evalLog' = <<>>
                 /\ args' = LifeArgs(role, ref, NoneArg, NoneArg)
          ELSE IF ~isfile
            THEN /\ outcome' = "error" /\ results' = <<>> /\ evalLog' = <<>>
                 /\ args' = LifeArgs(role, ref, NoneArg, NoneArg)
          ELSE MaterialUsageOf(role, ref, NoneArg)
  /\ UNCHANGED <<file, scale, bboxAvail, arith, reqs, guids, idx>>

\* resolve_element_embodied_carbon
ElementEmbodiedCarbon ==
  /\ pc = "idle"
  /\ \E role \in Roles, isfile \in BOOLEAN, ref \in Refs :
       /\ op' = "elementEmbodiedCarbon"
       /\ pc' = "done"
       /\ IF ~RequireRole(role)
            THEN /\ outcome' = "forbidden" /\ results' = <<>> /\ evalLog' = <<>>
                 /\ args' = LifeArgs(role, ref, NoneArg, NoneArg)
          ELSE IF ~isfile
            THEN /\ outcome' = "error" /\ results' = <<>> /\ evalLog' = <<>>
                 /\ args' = LifeArgs(role, ref, NoneArg, NoneArg)
          ELSE EmbodiedCarbonOf(role, ref, NoneArg, NoneArg)
  /\ UNCHANGED <<file, scale, bboxAvail, arith, reqs, guids, idx>>

\* calculate_element_material_usage called with a density argument
MaterialUsageCall ==
  /\ pc = "idle"
  /\ \E ref \in Refs, density \in Densities :
       /\ op' = "materialUsage"
       /\ pc' = "done"
       /\ MaterialUsageOf("none", ref, density)
  /\ UNCHANGED <<file, scale, bboxAvail, arith, reqs, guids, idx>>

\* calculate_element_embodied_carbon called with its arguments
EmbodiedCarbonCall ==
  /\ pc = "idle"
  /\ \E ref \in Refs, factor \in Factors, density \in Densities :
       /\ op' = "embodiedCarbon"
       /\ pc' = "done"
       /\ EmbodiedCarbonOf("none", ref, factor, density)
  /\ UNCHANGED <<file, scale, bboxAvail, arith, reqs, guids, idx>>

\* the extensions of the exact-geometry exports
ExportKinds == {"brep", "stp", "igs"}

\* export_element_brep / _step / _iges: the name of the file written
ExportElementOf(f, ref, kind) ==
  LET g  == GetElement(f, ref)
      sh == TopodsForElement(f, ref)
  IN  IF g.raised \/ g.el = NoEnt \/ sh.raised
        THEN [raised |-> TRUE, name |-> <<>>]
        ELSE [raised |-> FALSE, name |-> <<g.el.gid, kind>>]

\* resolve_export_element_brep / _step / _iges
ExportElement ==
  /\ pc = "idle"
  /\ \E role \in Roles, isfile \in BOOLEAN, ref \in Refs, kind \in ExportKinds :
       /\ op' = "exportElement"
       /\ pc' = "done"
       /\ args' = [role |-> role]
       /\ IF ~RequireRole(role)
            THEN /\ outcome' = "forbidden" /\ results' = <<>>
          ELSE IF ~isfile
            THEN /\ outcome' = "error" /\ results' = <<>>
          ELSE LET r == ExportElementOf(file, ref, kind)
               IN  /\ outcome' = IF r.raised THEN "error" ELSE "ok"
                   /\ results' = IF r.raised THEN <<>> ELSE <<r.name>>
  /\ UNCHANGED <<file, scale, bboxAvail, arith, reqs, guids, idx, evalLog>>

InitGated == Init /\ bboxAvail

NextGated ==
  \/ DetectClashesStart
  \/ SweepStep
  \/ SweepReturn
  \/ ElementVolume
  \/ ExportElement
  \/ ElementMaterialUsage
  \/ ElementEmbodiedCarbon
  \/ MaterialUsageCall
  \/ EmbodiedCarbonCall
  \/ Finish

SpecGated == InitGated /\ [][NextGated]_vars

\* ===================================================================
\* The WKT helpers
\* ===================================================================
\* "POLYGON((x0 y0, x0 y1, x1 y1, x1 y0, x0 y0))": the text of a rectangle
PolygonWkt(x0, y0, x1, y1) ==
  <<<<x0, y0>>, <<x0, y1>>, <<x1, y1>>, <<x1, y0>>, <<x0, y0>>>>

\* a text that is no WKT
NotWkt == <<>>

\* the texts of the squares with a corner on {0, 2, 3, 10} and a side of 1 to 3
WktOrigins == {0, 2, 3, 10}
WktSides == 1..3
Wkts ==
  {PolygonWkt(x, y, x + d, y + d) : x \in WktOrigins, y \in WktOrigins, d \in WktSides}
    \cup {NotWkt}

\* shapely_wkt.loads: the polygon the ring bounds; raises on a malformed text
Loads(w) ==
  IF Len(w) < 4 \/ w[1] # w[Len(w)] THEN [raised |-> TRUE, xmin |-> 0, xmax |-> 0,
                                          ymin |-> 0, ymax |-> 0]
  ELSE LET xs == {w[k][1] : k \in 1..Len(w)}
           ys == {w[k][2] : k \in 1..Len(w)}
       IN  [raised |-> FALSE,
            xmin |-> CHOOSE x \in xs : \A z \in xs : x <= z,
            xmax |-> CHOOSE x \in xs : \A z \in xs : x >= z,
            ymin |-> CHOOSE y \in ys : \A z \in ys : y <= z,
            ymax |-> CHOOSE y \in ys : \A z \in ys : y >= z]

\* an intersection test that looks at the X extents only
Intersects_XOnly(P, Q) == ~(P.xmax < Q.xmin \/ Q.xmax < P.xmin)

\* geom1.intersects(geom2): the closed regions have a point in common
Intersects(P, Q) ==
  ~(P.xmax < Q.xmin \/ Q.xmax < P.xmin \/ P.ymax < Q.ymin \/ Q.ymax < P.ymin)

\* check_wkt_intersection
CheckWktIntersection(w1, w2) ==
  LET g1 == Loads(w1)
      g2 == Loads(w2)
  IN  IF g1.raised \/ g2.raised THEN [raised |-> TRUE, value |-> FALSE]
      ELSE [raised |-> FALSE, value |-> Intersects(g1, g2)]

\* resolve_intersection_from_wkt
IntersectionFromWkt ==
  /\ pc = "idle"
  /\ \E w1 \in Wkts, w2 \in Wkts :
       LET r == CheckWktIntersection(w1, w2)
       IN  /\ op' = "intersectionFromWKT"
           /\ pc' = "done"
           /\ outcome' = IF r.raised THEN "error" ELSE "ok"
           /\ results' = IF r.raised THEN <<>> ELSE <<r.value>>
           /\ args' = [a |-> w1, b |-> w2]
  /\ UNCHANGED <<file, scale, bboxAvail, arith, reqs, guids, idx, evalLog>>

InitWkt ==
  /\ file = <<>>
  /\ scale = 5000
  /\ bboxAvail = TRUE
  /\ pc = "idle"
  /\ op = "none"
  /\ guids = <<>>
  /\ idx = 0
  /\ results = <<>>
  /\ outcome = "none"
  /\ evalLog = <<>>
  /\ args = NoArgs
  /\ arith = 0
  /\ reqs = [p \in Procs |-> NoReq]

NextWkt ==
  \/ IntersectionFromWkt
  \/ Finish

SpecWkt == InitWkt /\ [][NextWkt]_vars

\* ===================================================================
\* Properties of the 3D clash engine and of the sweep
\* ===================================================================
SweepOver == pc = "done" /\ op = "detectClashes" /\ outcome \in {"ok", "error"}

\* the element the reference names exists and a shape can be built for it
Resolvable(ref) ==
  \E k \in 1..Len(file) :
    /\ IF ref.kind = "guid" THEN file[k].gid = ref.val ELSE file[k].id = ref.val
    /\ file[k].geom # "fail"

\* the solid of a resolvable reference
SolidOf(ref) ==
  LET hits == SelectSeq(file, LAMBDA e :
                IF ref.kind = "guid" THEN e.gid = ref.val ELSE e.id = ref.val)
  IN  hits[1].solid

\* both elements resolve and their common solid has a positive rounded volume
\* whatever the noise of the integral
SureClash(a, b) ==
  /\ Resolvable(a) /\ Resolvable(b)
  /\ \A n \in NoiseOf(SolidOf(a), SolidOf(b)) :
       BooleanVolume(scale, SolidOf(a), SolidOf(b), n) > 0

HasRow(a, b) ==
  \E k \in 1..Len(results) : results[k].element1 = a /\ results[k].element2 = b

\* C1: a resolution failure of clash_between on one pair of the sweep removes
\* only that pair: the sweep still ends normally and returns the row of every
\* other clashing pair of candidates.
C1_SweepSurvivesFailure ==
  SweepOver =>
    /\ outcome = "ok"
    /\ \A k \in 1..Len(Pairs(guids)) :
         LET p == Pairs(guids)[k]
         IN  SureClash(GuidRef(p[1]), GuidRef(p[2])) => HasRow(p[1], p[2])

Culled(e) == ~e.raised /\ ~e.common

\* C2: whenever _bbox_disjoint holds of the two solids, clash_between returns
\* exactly 0 and the boolean common solid is never built for that pair.
C2_DisjointBoxesSkipBoolean ==
  \A k \in 1..Len(evalLog) :
    LET e == evalLog[k]
    IN  (Resolvable(e.a) /\ Resolvable(e.b)
           /\ BboxDisjoint(bboxAvail, SolidOf(e.a), SolidOf(e.b)))
        => (~e.raised /\ e.vol = 0 /\ ~e.common)

C2_Witness ==
  \E k \in 1..Len(evalLog) :
    /\ Culled(evalLog[k])
    /\ BboxDisjoint(bboxAvail, SolidOf(evalLog[k].a), SolidOf(evalLog[k].b))

\* C3: the cull is conservative: a culled pair has an exact common volume of
\* 0 and clash_between returns for it what the boolean step would have
\* returned; without the bounding-box helper no pair is culled.
C3_CullIsConservative ==
  \A k \in 1..Len(evalLog) :
    LET e == evalLog[k]
    IN  /\ Culled(e) =>
             /\ CommonVolume(scale, SolidOf(e.a), SolidOf(e.b)) = 0
             /\ \A n \in NoiseOf(SolidOf(e.a), SolidOf(e.b)) :
                  BooleanVolume(scale, SolidOf(e.a), SolidOf(e.b), n) = e.vol
        /\ (~bboxAvail /\ ~e.raised) => e.common

C3_Witness ==
  /\ bboxAvail
  /\ op = "detectClashes"
  /\ \E k \in 1..Len(evalLog) : Culled(evalLog[k])
  /\ \E k \in 1..Len(evalLog) : evalLog[k].common /\ evalLog[k].vol = 0

RECURSIVE RowsOfLog(_, _)
RowsOfLog(log, k) ==
  IF k > Len(log) THEN <<>>
  ELSE (IF log[k].vol > 0
          THEN <<ClashRow(log[k].a.val, log[k].b.val, log[k].vol)>> ELSE <<>>)
       \o RowsOfLog(log, k + 1)

\* C4: a sweep without failure returns a row for a pair of distinct
\* candidates iff clash_between gave a positive rounded volume for the pair,
\* with that volume; the rows are those of the pairs whose common solid has a
\* positive rounded volume.
C4_RowsAreThePositivePairs ==
  (SweepOver /\ outcome = "ok") =>
    /\ results = RowsOfLog(evalLog, 1)
    /\ \A k \in 1..Len(Pairs(guids)) :
         LET p == Pairs(guids)[k]
         IN  SureClash(GuidRef(p[1]), GuidRef(p[2])) => HasRow(p[1], p[2])
    /\ \A k \in 1..Len(results) :
         LET a == GuidRef(results[k].element1)
             b == GuidRef(results[k].element2)
         IN  /\ results[k].intersectionVolume > 0
             /\ \E n \in NoiseOf(SolidOf(a), SolidOf(b)) :
                  results[k].intersectionVolume
                    = BooleanVolume(scale, SolidOf(a), SolidOf(b), n)

\* four candidates, exactly one overlapping pair, exactly one row, for it
C4_Witness ==
  /\ SweepOver /\ outcome = "ok"
  /\ Len(guids) = 4
  /\ Len(results) = 1
  /\ results[1] = ClashRow("a", "b", 500)

Curated(class) == \E i \in 1..Len(Types) : IsA(class, Types[i])

UnorderedSame(a1, b1, a2, b2) ==
  (a1 = a2 /\ b1 = b2) \/ (a1 = b2 /\ b1 = a2)

\* C5: the candidates are identifiers of elements of the curated types, each
\* once; every unordered pair of distinct candidates is evaluated exactly
\* once, and no row pairs an element with itself or repeats a pair.
C5_CandidatesAndPairs ==
  op = "detectClashes" =>
    /\ \A i \in 1..Len(guids) :
         /\ \E k \in 1..Len(file) : file[k].gid = guids[i] /\ Curated(file[k].class)
         /\ \A j \in 1..Len(guids) : guids[i] = guids[j] => i = j
    /\ \A i, j \in 1..Len(evalLog) :
         /\ evalLog[i].a # evalLog[i].b
         /\ UnorderedSame(evalLog[i].a, evalLog[i].b, evalLog[j].a, evalLog[j].b)
              => i = j
    /\ (pc = "done" /\ outcome = "ok") =>
         /\ 2 * Len(evalLog) = Len(guids) * (Len(guids) - 1)
         /\ \A i, j \in 1..Len(guids) : i < j =>
              \E k \in 1..Len(evalLog) :
                evalLog[k].a = GuidRef(guids[i]) /\ evalLog[k].b = GuidRef(guids[j])
    /\ \A i, j \in 1..Len(results) :
         /\ results[i].element1 # results[i].element2
         /\ UnorderedSame(results[i].element1, results[i].element2,
                          results[j].element1, results[j].element2) => i = j

\* a file with the same GlobalId under two types and an element of another
\* type, swept to the end
C5_Witness ==
  /\ SweepOver /\ outcome = "ok"
  /\ \E i, j \in 1..Len(file) : i # j /\ file[i].gid = file[j].gid
                                  /\ Curated(file[i].class) /\ Curated(file[j].class)
  /\ \E i \in 1..Len(file) : ~Curated(file[i].class)
  /\ Len(guids) = 2
  /\ Len(evalLog) = 1

\* C6: clash_between raises when one of its elements is not found or has no
\* shape; it never returns a volume, 0 included, for such a pair.
C6_UnresolvedElementRaises ==
  \A k \in 1..Len(evalLog) :
    LET e == evalLog[k]
    IN  /\ (~Resolvable(e.a) \/ ~Resolvable(e.b)) => e.raised
        /\ e.raised => (pc = "done" /\ outcome = "error" /\ results = <<>>)

C6_Witness ==
  /\ op = "pairwiseClash"
  /\ outcome = "error"
  /\ \E k \in 1..Len(evalLog) :
       /\ evalLog[k].raised
       /\ Resolvable(evalLog[k].a)
       /\ ~Resolvable(evalLog[k].b)

\* ===================================================================
\* Properties of the 2D plan checks
\* ===================================================================
\* the reference resolves to a shape with vertices inside the window
Usable(ref, win) == Resolvable(ref) /\ InWindow(SolidOf(ref), win) # {}

\* C7: the pairwise plan check reports an element that is not found, or that
\* has fewer than 3 vertices in the Z window, as a failure and never as its
\* "no overlap" answer.
C7_UnresolvedFootprintRaises ==
  (op = "overlaps2d" /\ pc = "done") =>
    ((~Usable(args.a, args.win) \/ ~Usable(args.b, args.win)) => outcome = "error")

PlanOver == op = "detectPlanClashes" /\ pc = "done" /\ outcome = "ok"

DataA == PlanData(ByType(file, args.a), <<>>).data
DataB == PlanData(ByType(file, args.b), <<>>).data

PlanRowsOf(aid, bid) == SelectSeq(results, LAMBDA r : r.aId = aid /\ r.bId = bid)

\* C8: a pair with a.zmax + zTolerance < b.zmin or b.zmax + zTolerance < a.zmin
\* gives no row whatever its footprints; any other pair gives a row iff its
\* footprints intersect, with the rounded area of the intersection.
C8_ZBandCull ==
  PlanOver =>
    \A i \in 1..Len(DataA), j \in 1..Len(DataB) :
      LET A == DataA[i]
          B == DataB[j]
          skipped == A.zmax + args.tol < B.zmin \/ B.zmax + args.tol < A.zmin
          rows == PlanRowsOf(A.id, B.id)
      IN  IF skipped THEN rows = <<>>
          ELSE IF A.fp \cap B.fp = {} THEN rows = <<>>
          ELSE /\ Len(rows) = 1
               /\ rows[1].area = PyRound(Area(scale, A.fp \cap B.fp), 6)

\* footprints that coincide, Z extents [0,1] and [5,6], zTolerance 0.2: no row
C8_Witness ==
  /\ PlanOver
  /\ args.tol = 2
  /\ \E i \in 1..Len(DataA), j \in 1..Len(DataB) :
       /\ DataA[i].fp = DataB[j].fp
       /\ DataA[i].zmin = 0 /\ DataA[i].zmax = 10
       /\ DataB[j].zmin = 50 /\ DataB[j].zmax = 60
       /\ PlanRowsOf(DataA[i].id, DataB[j].id) = <<>>

\* C9: every row reported with a Z tolerance is reported, with the same area,
\* with any larger tolerance; a smaller tolerance never gives more rows.
C9_MonotoneInTolerance ==
  PlanOver =>
    \A t \in ZTols : t <= args.tol =>
      LET r == DetectPlanClashesOf(file, scale, args.a, args.b, t, args.wkt, args.bad)
      IN  /\ ~r.raised
          /\ Len(r.rows) <= Len(results)
          /\ \A k \in 1..Len(r.rows) :
               \E j \in 1..Len(results) :
                 /\ results[j].aId = r.rows[k].aId
                 /\ results[j].bId = r.rows[k].bId
                 /\ results[j].area = r.rows[k].area

\* a scan with zTolerance 10 that reports more rows than with zTolerance 0
C9_Witness ==
  /\ PlanOver
  /\ args.tol = 100
  /\ Len(DetectPlanClashesOf(file, scale, args.a, args.b, 0, args.wkt, args.bad).rows) > 0
  /\ Len(DetectPlanClashesOf(file, scale, args.a, args.b, 0, args.wkt, args.bad).rows)
       < Len(results)

\* C10: every row of a plan scan has an intersection area above the plan-area
\* tolerance of 1e-6, and its reported, rounded, area is not 0.
C10_RowsExceedAreaTolerance ==
  PlanOver =>
    \A k \in 1..Len(results) :
      /\ results[k].area > 0
      /\ \E i \in 1..Len(DataA), j \in 1..Len(DataB) :
           /\ DataA[i].id = results[k].aId
           /\ DataB[j].id = results[k].bId
           /\ Less(Real(AREA_TOL, 0), Area(scale, DataA[i].fp \cap DataB[j].fp))

\* ===================================================================
\* Properties of the plan scan over degenerate geometry and of the
\* storey-scoped request
\* ===================================================================
\* an element that has an identifier and no footprint: no shape can be built
\* for it, or its mesh holds no vertex, no face or no valid triangle
NoFootprint(e) ==
  e.gid # NoGid /\ (e.geom = "fail" \/ (e.geom = "ok" /\ e.mesh # "solid"))

\* the elements a finished plan scan was asked to look at
Scanned ==
  {file[k] : k \in {j \in 1..Len(file) : IsA(file[j].class, args.a) \/ IsA(file[j].class, args.b)}}

PlanAnswered == pc = "done" /\ op = "detectPlanClashes" /\ outcome # "file-not-found"

\* C11: a plan scan that meets elements without footprint (no 3D
\* representation, no vertices or faces, no valid projected triangle) returns
\* normally, names none of them in a row, and returns the rows of the
\* remaining elements
C11_DegenerateElementsAreSkipped ==
  (PlanAnswered /\ \A e \in Scanned : e.geom # "alt") =>
     /\ outcome = "ok"
     /\ \A k \in 1..Len(results) : \A e \in Scanned :
          NoFootprint(e) => results[k].aId # e.gid /\ results[k].bId # e.gid
     /\ results =
          DetectPlanClashesOf(SelectSeq(file, LAMBDA e : ~NoFootprint(e)), scale,
                              args.a, args.b, args.tol, args.wkt, args.bad).rows

\* the storey an element is contained in: the upper storey starts at 5 m
StoreyOf(e) == IF e.solid # {} /\ Lo(e.solid, 3) >= 5 THEN 2 ELSE 1

\* C12: the storey-scoped request on an existing file returns the plan-clash
\* rows of the elements of the two types that the storey contains
C12_StoreyScopedRows ==
  (pc = "done" /\ op = "overlaps2DOnStorey" /\ outcome # "file-not-found") =>
     /\ outcome = "ok"
     /\ results =
          DetectPlanClashesOf(SelectSeq(file, LAMBDA e : StoreyOf(e) = args.storey),
                              scale, args.a, args.b, args.tol, args.wkt, args.bad).rows

\* ===================================================================
\* Properties of the values clash_between returns
\* ===================================================================
\* vol, counting units of 1e-6, is a multiple of 1e-6 nearest to v
NearestMicro(vol, v) ==
  ~Less(v, Real(vol * 10 - 5, 0)) /\ ~Less(Real(vol * 10 + 5, 0), v)

VolumeRows == op \in {"detectClashes", "pairwiseClash"}

\* C13: an intersection volume of magnitude below 1e-12 is returned as
\* exactly 0 and gives no row; any other volume is returned rounded to 6
\* decimals, and a pair has a row of the sweep only if the rounded value is
\* strictly positive
C13_TinyVolumesVanish ==
  \A k \in 1..Len(evalLog) :
    LET e == evalLog[k]
        c == IF IsNeg(e.mass) THEN Zero ELSE e.mass
    IN  e.common =>
          /\ Less(Abs(e.mass), Real(0, EPS)) => e.vol = 0
          /\ ~Less(Abs(e.mass), Real(0, EPS)) => NearestMicro(e.vol, c)
          /\ (op = "detectClashes" /\ HasRow(e.a.val, e.b.val)) => e.vol > 0

C13_Witness ==
  /\ SweepOver /\ outcome = "ok"
  /\ \E k \in 1..Len(evalLog) :
       /\ evalLog[k].common /\ evalLog[k].mass = Real(0, 1) /\ evalLog[k].vol = 0
       /\ ~HasRow(evalLog[k].a.val, evalLog[k].b.val)
  /\ \E k \in 1..Len(evalLog) :
       /\ evalLog[k].mass = Real(5000, 0) /\ evalLog[k].vol = 500
       /\ HasRow(evalLog[k].a.val, evalLog[k].b.val)

\* C14: every value clash_between returns is >= 0: a negative integral over
\* the common solid gives 0 and no error, and every intersectionVolume of a
\* row is >= 0
C14_VolumesAreNonNegative ==
  /\ \A k \in 1..Len(evalLog) :
       /\ ~evalLog[k].raised => evalLog[k].vol >= 0
       /\ (evalLog[k].common /\ IsNeg(evalLog[k].mass))
            => (~evalLog[k].raised /\ evalLog[k].vol = 0)
  /\ VolumeRows => \A k \in 1..Len(results) : results[k].intersectionVolume >= 0

C14_Witness ==
  /\ op = "pairwiseClash" /\ outcome = "ok" /\ Len(evalLog) = 1
  /\ evalLog[1].common /\ Less(evalLog[1].mass, Real(0 - 5, 0))
  /\ evalLog[1].vol = 0
  /\ results[1].intersectionVolume = 0

\* C15: clash_between is symmetric: with the arguments exchanged it fails
\* iff it failed, and else returns the same value, the culled case included
C15_ClashBetweenIsSymmetric ==
  \A k \in 1..Len(evalLog) :
    LET e  == evalLog[k]
        sw == ClashBetween(file, scale, bboxAvail, e.b, e.a, e.noise)
    IN  /\ sw.raised = e.raised
        /\ ~e.raised => sw.vol = e.vol

C15_Witness ==
  /\ op = "pairwiseClash" /\ outcome = "ok" /\ Len(evalLog) = 1
  /\ SolidOf(evalLog[1].a) # SolidOf(evalLog[1].b)
  /\ evalLog[1].vol > 0
  /\ ClashBetween(file, scale, bboxAvail, evalLog[1].b, evalLog[1].a,
                  evalLog[1].noise).vol = evalLog[1].vol

\* the STEP id of the element a resolvable reference names
IdOf(ref) ==
  LET hits == SelectSeq(file, LAMBDA e :
                IF ref.kind = "guid" THEN e.gid = ref.val ELSE e.id = ref.val)
  IN  hits[1].id

\* C16: clash_between of an element with itself is not culled and equals the
\* element's volume up to the rounding of the two functions: the two values
\* differ by at most half a unit of the coarser rounding (50 units of 1e-6)
C16_SelfClashIsVolume ==
  \A k \in 1..Len(evalLog) :
    LET e == evalLog[k]
    IN  (Resolvable(e.a) /\ Resolvable(e.b) /\ IdOf(e.a) = IdOf(e.b)) =>
          /\ ~e.raised
          /\ SolidOf(e.a) # {} => e.common
          /\ \A n \in NoiseOf(SolidOf(e.a), SolidOf(e.a)) :
               LET v == ComputeElementVolume(file, scale, e.a, n)
               IN  /\ ~v.raised
                   /\ e.vol - 100 * v.vol <= 50
                   /\ 100 * v.vol - e.vol <= 50

C16_Witness ==
  /\ op = "pairwiseClash" /\ outcome = "ok" /\ Len(evalLog) = 1
  /\ evalLog[1].a # evalLog[1].b
  /\ Resolvable(evalLog[1].a) /\ Resolvable(evalLog[1].b)
  /\ IdOf(evalLog[1].a) = IdOf(evalLog[1].b)
  /\ evalLog[1].common /\ evalLog[1].vol = 1
  /\ ComputeElementVolume(file, scale, evalLog[1].a, 0).vol = 0

\* ===================================================================
\* Properties of sweeps that run side by side
\* ===================================================================
Swept(p) == reqs[p].pc = "done" /\ reqs[p].outcome \in {"ok", "error"}

\* C17: two sweeps of the same file, one after the other or interleaved in
\* any way, end alike and return the same list of rows
C17_SweepsAgree ==
  \A p \in Procs, q \in Procs :
    (Swept(p) /\ Swept(q)) =>
       /\ reqs[p].outcome = reqs[q].outcome
       /\ reqs[p].results = reqs[q].results

C17_Witness ==
  /\ Swept(1) /\ Swept(2)
  /\ reqs[1].outcome = "ok"
  /\ Len(reqs[1].results) >= 1
  /\ reqs[1].results = reqs[2].results
  /\ \E k \in 1..Len(reqs[2].results) : reqs[2].results[k].intersectionVolume = 499

\* ===================================================================
\* Properties of the rows of a plan scan
\* ===================================================================
\* the place of an identifier in the precomputed data of one set
PosIn(data, id) == CHOOSE k \in 1..Len(data) : data[k].id = id

\* C18: the rows of a plan scan follow the iteration order of set A and,
\* within one element of A, the iteration order of set B; they are sorted
\* neither by area nor by identifier
C18_RowsFollowLoopOrder ==
  PlanOver =>
    \A k \in 1..Len(results), l \in 1..Len(results) :
      k < l =>
        LET ka == PosIn(DataA, results[k].aId)
            kb == PosIn(DataB, results[k].bId)
            la == PosIn(DataA, results[l].aId)
            lb == PosIn(DataB, results[l].bId)
        IN  ka < la \/ (ka = la /\ kb < lb)

\* set A iterates "b" before "a": the rows of "b" come first, the areas of
\* the rows go down and up again
C18_Witness ==
  /\ PlanOver
  /\ Len(results) >= 4
  /\ results[1].aId = "b" /\ results[2].aId = "b" /\ results[2].bId = "a"
  /\ results[3].aId = "a"
  /\ results[1].area > results[2].area
  /\ results[3].area < results[4].area

\* the element has an identifier and a footprint
HasFootprint(e) ==
  e.gid # NoGid /\ e.geom = "ok" /\ e.mesh = "solid" /\ e.solid # {}

\* the last element of the list that carries the identifier
LastOf(es, gid) ==
  es[CHOOSE k \in 1..Len(es) :
       es[k].gid = gid /\ \A j \in (k + 1)..Len(es) : es[j].gid # gid]

EligibleA == SelectSeq(ByType(file, args.a), HasFootprint)
EligibleB == SelectSeq(ByType(file, args.b), HasFootprint)

\* C19: elements of one set that carry the same identifier collapse to one
\* entry with the data of the last one seen: there is at most one row per
\* (aId, bId), computed from the geometry of the last elements
C19_LastSeenWins ==
  PlanOver =>
    \A i \in 1..Len(EligibleA), j \in 1..Len(EligibleB) :
      LET A    == LastOf(EligibleA, EligibleA[i].gid)
          B    == LastOf(EligibleB, EligibleB[j].gid)
          za   == ZRange(A.solid)
          zb   == ZRange(B.solid)
          apart == za.zmax + args.tol < zb.zmin \/ zb.zmax + args.tol < za.zmin
          inter == FootprintPolygon(A.solid) \cap FootprintPolygon(B.solid)
          rows == PlanRowsOf(A.gid, B.gid)
      IN  /\ Len(rows) <= 1
          /\ Len(rows) = 1 <=> (~apart /\ inter # {})
          /\ Len(rows) = 1 => rows[1].area = PyRound(Area(scale, inter), 6)

\* two elements "a" in set A: the first overlaps "b" in plan and in Z, the
\* last one lies above it, and there is no row
C19_Witness ==
  /\ PlanOver
  /\ args.tol = 2
  /\ \E i \in 1..Len(EligibleA), k \in 1..Len(EligibleA), j \in 1..Len(EligibleB) :
       /\ i < k
       /\ EligibleA[i].gid = EligibleA[k].gid
       /\ EligibleA[k] = LastOf(EligibleA, EligibleA[k].gid)
       /\ FootprintPolygon(EligibleA[i].solid) \cap FootprintPolygon(EligibleB[j].solid) # {}
       /\ ZRange(EligibleA[i].solid).zmax >= ZRange(EligibleB[j].solid).zmin
       /\ ZRange(EligibleB[j].solid).zmax >= ZRange(EligibleA[i].solid).zmin
       /\ EligibleB[j].gid # EligibleA[i].gid
       /\ EligibleB[j] = LastOf(EligibleB, EligibleB[j].gid)
       /\ PlanRowsOf(EligibleA[i].gid, EligibleB[j].gid) = <<>>

\* the rows of the same scan asked without geometry
PlainRows == DetectPlanClashesOf(file, scale, args.a, args.b, args.tol, FALSE, {}).rows

\* C20: a row carries WKT text only if geometry was requested and the
\* serialization succeeded; a failed serialization leaves the row in place
\* with its area and a null wkt, and the other rows as they are; without the
\* request no row has a wkt
C20_WktOnlyOnRequest ==
  PlanOver =>
    /\ Len(results) = Len(PlainRows)
    /\ \A k \in 1..Len(results) :
         LET r == results[k]
             inter == DataA[PosIn(DataA, r.aId)].fp \cap DataB[PosIn(DataB, r.bId)].fp
         IN  /\ r.aId = PlainRows[k].aId /\ r.bId = PlainRows[k].bId
             /\ r.area = PlainRows[k].area
             /\ ~args.wkt => r.wkt = NoWkt
             /\ args.wkt => /\ r.wkt.key
                            /\ r.wkt.null <=> inter \in args.bad
                            /\ ~r.wkt.null => (r.wkt.text = inter /\ inter # {})

C20_Witness ==
  /\ PlanOver /\ args.wkt
  /\ \E k \in 1..Len(results), l \in 1..Len(results) :
       /\ results[k].wkt.key /\ results[k].wkt.null /\ results[k].area > 0
       /\ results[l].wkt.key /\ ~results[l].wkt.null /\ results[l].wkt.text # {}

\* the rows of the same scan with the two types exchanged
SwappedRows ==
  DetectPlanClashesOf(file, scale, args.b, args.a, args.tol, args.wkt, args.bad)

\* C21: the plan intersection area is symmetric and never exceeds the area
\* of the smaller footprint; the scan with the two types exchanged reports
\* the same pairs with the same areas, aId and bId exchanged
C21_PlanAreaIsSymmetric ==
  PlanOver =>
    /\ ~SwappedRows.raised
    /\ Len(SwappedRows.rows) = Len(results)
    /\ \A k \in 1..Len(results) :
         LET r  == results[k]
             fa == DataA[PosIn(DataA, r.aId)].fp
             fb == DataB[PosIn(DataB, r.bId)].fp
         IN  /\ \E j \in 1..Len(SwappedRows.rows) :
                  /\ SwappedRows.rows[j].aId = r.bId
                  /\ SwappedRows.rows[j].bId = r.aId
                  /\ SwappedRows.rows[j].area = r.area
             /\ Area(scale, fa \cap fb) = Area(scale, fb \cap fa)
             /\ ~Less(Area(scale, fa), Area(scale, fa \cap fb))
             /\ ~Less(Area(scale, fb), Area(scale, fa \cap fb))
             /\ r.area <= PyRound(Area(scale, fa), 6)
             /\ r.area <= PyRound(Area(scale, fb), 6)

\* a row of two different elements whose area is below both footprints
C21_Witness ==
  /\ PlanOver
  /\ args.a # args.b
  /\ \E k \in 1..Len(results) :
       /\ results[k].aId # results[k].bId
       /\ results[k].area > 0
       /\ results[k].area < PyRound(Area(scale, DataA[PosIn(DataA, results[k].aId)].fp), 6)
       /\ results[k].area < PyRound(Area(scale, DataB[PosIn(DataB, results[k].bId)].fp), 6)

\* ===================================================================
\* Properties of the WKT helpers
\* ===================================================================
\* the unit cells and the lattice points of the rectangle a text describes
WktCells(w) == (w[1][1]..(w[3][1] - 1)) \X (w[1][2]..(w[3][2] - 1))
WktPoints(w) == (w[1][1]..w[3][1]) \X (w[1][2]..w[3][2])

WktAnswered == op = "intersectionFromWKT" /\ pc = "done" /\ outcome = "ok"

\* C22: check_wkt_intersection is true for two polygons whose regions
\* overlap, false for two polygons with no point in common, and the same
\* with the arguments exchanged
C22_WktIntersection ==
  WktAnswered =>
    /\ WktCells(args.a) \cap WktCells(args.b) # {} => results[1] = TRUE
    /\ WktPoints(args.a) \cap WktPoints(args.b) = {} => results[1] = FALSE
    /\ ~CheckWktIntersection(args.b, args.a).raised
    /\ CheckWktIntersection(args.b, args.a).value = results[1]

\* the squares (0,0)-(3,3) and (2,2)-(5,5): true
C22_Witness ==
  /\ WktAnswered
  /\ args.a = PolygonWkt(0, 0, 3, 3)
  /\ args.b = PolygonWkt(2, 2, 5, 5)
  /\ WktCells(args.a) \cap WktCells(args.b) = {<<2, 2>>}
  /\ results = <<TRUE>>

\* ===================================================================
\* Lifecycle claims
\* ===================================================================
LifeOps ==
  {"elementMaterialUsage", "elementEmbodiedCarbon", "materialUsage", "embodiedCarbon"}
CarbonOps == {"elementEmbodiedCarbon", "embodiedCarbon"}

\* a lifecycle operation has answered with a value
LifeAnswered == pc = "done" /\ op \in LifeOps /\ outcome = "ok"

\* the IFC type of the element a reference names, read from the file
ClassOf(ref) ==
  LET hits == SelectSeq(file, LAMBDA e :
                IF ref.kind = "guid" THEN e.gid = ref.val ELSE e.id = ref.val)
  IN  IF Len(hits) = 0 THEN "default" ELSE hits[1].class

\* the default density of a type, in kg/m3
TypeDensity(class) ==
  CASE class = "IfcSlab" -> 2300
    [] class = "IfcWall" -> 2000
    [] class \in {"IfcBeam", "IfcColumn"} -> 7850
    [] OTHER -> 2400

\* the default carbon factor of a type, in hundredths
TypeFactor(class) ==
  CASE class \in {"IfcSlab", "IfcWall"} -> 12
    [] class \in {"IfcBeam", "IfcColumn"} -> 190
    [] OTHER -> 10

\* m thousandths is x / d rounded to 3 decimals and never negative
Rounded3(m, x, d) ==
  LET y == IF x < 0 THEN 0 ELSE x
  IN  m >= 0 /\ 2 * (m * d - y) <= d /\ 2 * (y - m * d) <= d

\* the mass is volume x density, with the density argument when given and the
\* default density of the type otherwise
MassIsRight ==
  LET rho == IF args.density.given THEN args.density.val
             ELSE TypeDensity(ClassOf(args.ref))
  IN  /\ Rounded3(evalLog[1].mass, evalLog[1].vol * rho, 10)
      /\ op \notin CarbonOps => results = <<evalLog[1].mass>>

\* C23 as stated: the mass is v x density (rounded to 3 decimals, never
\* negative) with the density argument or else the default density of the
\* type, and the embodied carbon is that mass x the carbon factor, the
\* factor argument when given and otherwise 0.1
C23_DefaultFactorIsOneTenth ==
  LifeAnswered =>
    /\ MassIsRight
    /\ op \in CarbonOps =>
         Rounded3(results[1],
                  evalLog[1].mass * (IF args.factor.given THEN args.factor.val ELSE 10),
                  100)

\* C23 amended: the mass is v x density (rounded to 3 decimals, never
\* negative) with the density argument or else the default density of the
\* type (2400 for a type outside the table), and the embodied carbon is that
\* mass x the carbon factor, the factor argument when given and otherwise the
\* default factor of the type (0.12 slab and wall, 1.90 beam and column, 0.10
\* for a type outside the table)
C23_LifecycleValues ==
  LifeAnswered =>
    /\ MassIsRight
    /\ op \in CarbonOps =>
         Rounded3(results[1],
                  evalLog[1].mass * (IF args.factor.given THEN args.factor.val
                                     ELSE TypeFactor(ClassOf(args.ref))),
                  100)

\* a beam's carbon computed from an explicit density and the beam's own factor
C23_Witness ==
  /\ LifeAnswered
  /\ op = "embodiedCarbon"
  /\ args.density = Given(7851)
  /\ ~args.factor.given
  /\ ClassOf(args.ref) = "IfcBeam"
  /\ evalLog[1].vol > 0
  /\ results[1] > 0
  /\ ~Rounded3(results[1], evalLog[1].mass * 10, 100)

\* ===================================================================
\* Access claims
\* ===================================================================
GatedOps ==
  {"detectClashes", "elementVolume", "exportElement",
   "elementMaterialUsage", "elementEmbodiedCarbon"}

\* a role-gated resolver has been called
GatedCalled == pc # "idle" /\ op \in GatedOps

\* the spellings of engineer and architect among the roles
AdmittedSpellings == {"engineer", "architect", "Engineer"}

\* C24: a role-gated resolver answers Forbidden exactly when the caller's
\* role is not engineer or architect in some spelling of case (client and
\* anonymous callers included), whether or not the file exists, and a
\* forbidden call has ended with no candidate listed, no pair or volume
\* evaluated and no result
C24_ForbiddenBeforeAnyWork ==
  GatedCalled =>
    /\ outcome = "forbidden" <=> args.role \notin AdmittedSpellings
    /\ outcome = "forbidden" =>
         pc = "done" /\ guids = <<>> /\ evalLog = <<>> /\ results = <<>>

\* a client is refused the sweep of a file with two overlapping candidates
C24_Witness ==
  /\ GatedCalled
  /\ op = "detectClashes"
  /\ args.role = "client"
  /\ outcome = "forbidden"
  /\ \E i, j \in 1..Len(file) :
       i # j /\ file[i].solid \cap file[j].solid # {}

\* ===================================================================
\* Shape construction in the plan scan
\* ===================================================================
\* C25: in the plan scan the shape of an element is tried with the default
\* settings and, when that fails, once more without the openings, so the
\* scan fails on an element only when both attempts fail: a scan that ended
\* in an error has an element among the scanned ones that neither attempt
\* can build
C25_PlanScanRetriesWithoutOpenings ==
  (PlanAnswered /\ outcome = "error") =>
     \E e \in Scanned : e.gid # NoGid /\ e.geom = "fail"

\* ===================================================================
\* Tokens and roles
\* ===================================================================
\* the request carries a Bearer token that the middleware accepts
ValidBearer(request) ==
  /\ request.header.scheme = "Bearer "
  /\ request.header.token.key = "your-secret-key"
  /\ ~request.header.token.expired

\* C26: a request with a valid Bearer token whose role is engineer or
\* architect is admitted by the gate of elementVolume, and the role the gate
\* reads is the role of the token
C26_TokenRoleIsAdmitted ==
  (pc = "done" /\ op = "elementVolume" /\ ValidBearer(args.request)) =>
     /\ args.role = args.request.header.token.role
     /\ args.request.header.token.role \in {"engineer", "architect"} =>
          outcome # "forbidden"

\* ===================================================================
\* Identical and mirrored pairs of the plan scan
\* ===================================================================
\* the elements of the file that are in the A set and in the B set and have
\* a footprint
SharedElements ==
  {file[k] : k \in {j \in 1..Len(file) :
                      /\ IsA(file[j].class, args.a)
                      /\ IsA(file[j].class, args.b)
                      /\ HasFootprint(file[j])}}

\* the rows (x, y) and (y, x) come together, with the same area
Mirrored(x, y) ==
  LET xy == PlanRowsOf(x.gid, y.gid)
      yx == PlanRowsOf(y.gid, x.gid)
  IN  /\ Len(xy) = Len(yx)
      /\ Len(xy) > 0 => xy[1].area = yx[1].area

\* the row of an element with itself, whose area is the element's own
\* footprint area
SelfRow(e) ==
  \E k \in 1..Len(results) :
    /\ results[k].aId = e.gid
    /\ results[k].bId = e.gid
    /\ results[k].area = PyRound(Area(scale, FootprintPolygon(e.solid)), 6)

KeptInBoth(e) ==
  e = LastOf(EligibleA, e.gid) /\ e = LastOf(EligibleB, e.gid)

====
